---- MODULE Spec2Model ----
(***************************************************************************)
(* Model of the natural-language finance-data query tool                   *)
(* (src/whm_test1/original version.py): the REPL of main, one query cycle  *)
(* of NLDataQuery.query (call_deepseek, execute_code, the display branch)  *)
(* and save_result.                                                        *)
(*                                                                         *)
(* Text is a sequence of characters, one string per character.  The CJK    *)
(* characters of the source are written by code point ("U+51FA" is the     *)
(* character chu, "U+9519" the character cuo, ...).  Exception messages    *)
(* and stringified values are sequences of text pieces.                    *)
(*                                                                         *)
(* Python values are records tagged with their type in field t.            *)
(*                                                                         *)
(* Not modelled: the rendering done by the rich library, and a keyboard    *)
(* interrupt delivered while a query cycle is running (only the one at     *)
(* the prompt is).                                                         *)
(***************************************************************************)
EXTENDS Integers, Sequences, FiniteSets, TLC

VARIABLES
    pc,                \* position of the process in main / query
    api_key,           \* whether DEEPSEEK_API_KEY is set in the environment
    debug_mode,        \* self.debug_mode
    last_result,       \* self.last_result
    last_query,        \* self.last_query
    natural_language,  \* argument of the running query()
    resp,              \* what the remote endpoint answered in this cycle
    query_type,        \* first component of call_deepseek's return value
    content,           \* second component of call_deepseek's return value
    result,            \* value returned by execute_code in this cycle
    raised,            \* exception raised by the exec'd code in this cycle
    out,               \* what the current command has displayed so far
    written,           \* what save_result wrote in the current command
    remoteCalls,       \* requests.post calls made by the running query()
    execCalls,         \* execute_code calls made by the running query()
    shown,             \* history: the value last displayed as table or as
                       \* result (None, displayed as result, does not count)
    decisive           \* history: that value, if no later cycle explained,
                       \* failed or returned None

vars == <<pc, api_key, debug_mode, last_result, last_query, natural_language,
          resp, query_type, content, result, raised, out, written,
          remoteCalls, execCalls, shown, decisive>>

----------------------------------------------------------------------------
(* Bounds of the model *)

\* longest run of blanks put before, inside and after a response text
MaxPad == 1
\* most rows of a DataFrame the finance-data library returns
MaxRows == 1

----------------------------------------------------------------------------
(* Python values *)

PyNone == [t |-> "NoneType"]
PyStr(s) == [t |-> "str", s |-> s]
PyInt(i) == [t |-> "int", i |-> i]
PyDF(n) == [t |-> "DataFrame", rows |-> n]
PyModule(m) == [t |-> "module", name |-> m]
PyCallable(f) == [t |-> "callable", name |-> f]
PyLibFunction(f) == [t |-> "libfunction", name |-> f]

\* `not v` of Python for the values query() tests
Falsy(v) == v = PyNone \/ (v.t = "str" /\ v.s = <<>>)

\* str(v)
StrOf(v) ==
    CASE v.t = "str" -> v.s
      [] v.t = "NoneType" -> <<"None">>
      [] v.t = "int" /\ v.i = 1 -> <<"1">>
      [] v.t = "DataFrame" -> <<"<DataFrame>">>
      [] OTHER -> <<"<object>">>

----------------------------------------------------------------------------
(* str methods used by the source *)

\* the whitespace str.strip() removes (the ASCII part of it)
Whitespace == {" ", "\t", "\n", "\r"}

RECURSIVE LStrip(_)
LStrip(s) == IF s # <<>> /\ Head(s) \in Whitespace THEN LStrip(Tail(s)) ELSE s

RECURSIVE RStrip(_)
RStrip(s) ==
    IF s # <<>> /\ s[Len(s)] \in Whitespace
    THEN RStrip(SubSeq(s, 1, Len(s) - 1))
    ELSE s

\* s.strip()
Strip(s) == RStrip(LStrip(s))

\* s.startswith(p)
StartsWith(s, p) == Len(s) >= Len(p) /\ SubSeq(s, 1, Len(p)) = p

\* s[k:]
SliceFrom(s, k) == IF k >= Len(s) THEN <<>> ELSE SubSeq(s, k + 1, Len(s))

\* s[:k]
SliceTo(s, k) == IF k >= Len(s) THEN s ELSE SubSeq(s, 1, k)

\* sub in s
Contains(s, sub) ==
    \E i \in 1..(Len(s) + 1) :
        i + Len(sub) - 1 <= Len(s) /\ SubSeq(s, i, i + Len(sub) - 1) = sub

LowerChar(c) ==
    CASE c = "S" -> "s"
      [] c = "A" -> "a"
      [] c = "V" -> "v"
      [] c = "E" -> "e"
      [] OTHER -> c

\* s.lower()
Lower(s) == [i \in 1..Len(s) |-> LowerChar(s[i])]

----------------------------------------------------------------------------
(* call_deepseek *)

CodeTag == <<"C", "O", "D", "E", "|">>
ExplainTag == <<"E", "X", "P", "L", "A", "I", "N", "|">>

\* content[5:] and content[8:]
CodeSkip == 5
ExplainSkip == 8

TypeCode == PyStr(<<"c", "o", "d", "e">>)
TypeExplain == PyStr(<<"e", "x", "p", "l", "a", "i", "n">>)

Classified(t, c) == [query_type |-> t, content |-> c]

\* ParseContent without the second strip(): content[5:] as it is
ParseContent_PayloadNotTrimmed(text) ==
    LET c == Strip(text) IN
    IF StartsWith(c, CodeTag) THEN
        Classified(TypeCode, PyStr(SliceFrom(c, CodeSkip)))
    ELSE IF StartsWith(c, ExplainTag) THEN
        Classified(TypeExplain, PyStr(SliceFrom(c, ExplainSkip)))
    ELSE
        Classified(TypeCode, PyStr(c))

\* ParseContent without the legacy branch: an untagged text is not understood
ParseContent_NoLegacy(text) ==
    LET c == Strip(text) IN
    IF StartsWith(c, CodeTag) THEN
        Classified(TypeCode, PyStr(Strip(SliceFrom(c, CodeSkip))))
    ELSE IF StartsWith(c, ExplainTag) THEN
        Classified(TypeExplain, PyStr(Strip(SliceFrom(c, ExplainSkip))))
    ELSE
        Classified(PyNone, PyNone)

\* the parse of the first choice's text
ParseContent(text) ==
    LET c == Strip(text) IN
    IF StartsWith(c, CodeTag) THEN
        Classified(TypeCode, PyStr(Strip(SliceFrom(c, CodeSkip))))
    ELSE IF StartsWith(c, ExplainTag) THEN
        Classified(TypeExplain, PyStr(Strip(SliceFrom(c, ExplainSkip))))
    ELSE
        Classified(TypeCode, PyStr(c))

\* A response of the remote endpoint:
\*   net      "ok", or "error" when requests.post raises (no connection,
\*            timeout)
\*   status   the HTTP status
\*   body     "json", or "nojson" when response.json() raises
\*   choices  "absent" (no "choices" key), "empty" (an empty list),
\*            "malformed" (a first choice without message/content, or one
\*            whose content is no string), or "present"
\*   text     choices[0].message.content
Response(n, st, b, ch, tx) ==
    [net |-> n, status |-> st, body |-> b, choices |-> ch, text |-> tx]

\* True when the try block of call_deepseek raises an Exception
ApiRaises(r) ==
    \/ r.net = "error"
    \/ r.body = "nojson"
    \/ r.choices = "malformed"

call_deepseek(r) ==
    IF ApiRaises(r) THEN Classified(PyNone, PyNone)
    ELSE IF r.choices = "present" THEN ParseContent(r.text)
    ELSE Classified(PyNone, PyNone)

----------------------------------------------------------------------------
(* execute_code *)

\* The expressions the model draws the generated code from, as text.
SrcLibCall == <<"a", "k", ".", "f", "(", ")">>
SrcUndefined == <<"x">>
SrcOsSep == <<"o", "s", ".", "s", "e", "p">>
SrcNone == <<"N", "o", "n", "e">>
SrcErrLiteral == <<"'", "U+51FA", "U+9519", "'">>
SrcExit == <<"e", "x", "i", "t", "(", ")">>
SrcTwoStatements == <<"1", ";", "i", "m", "p", "o", "r", "t", " ", "o", "s">>
SrcBareTag == <<"C", "O", "D", "E">>
SrcProse == <<"a", " ", "b">>

\* Abstract syntax
Name(id) == [k |-> "name", id |-> id]
Const(v) == [k |-> "const", v |-> v]
Attr(e, a) == [k |-> "attr", e |-> e, a |-> a]
Call(e) == [k |-> "call", e |-> e]
Assign(target, e) == [k |-> "assign", target |-> target, e |-> e]
Import(m) == [k |-> "import", m |-> m]

Compiled(stmts) == [ok |-> TRUE, stmts |-> stmts]
NotCompiled == [ok |-> FALSE]

\* What Python's compiler makes of f"result = {code}" in exec mode, for the
\* expressions above; the empty expression and prose are syntax errors.
Compile(code) ==
    CASE code = SrcLibCall ->
            Compiled(<<Assign("result", Call(Attr(Name("ak"), "f")))>>)
      [] code = SrcUndefined -> Compiled(<<Assign("result", Name("x"))>>)
      [] code = SrcOsSep ->
            Compiled(<<Assign("result", Attr(Name("os"), "sep"))>>)
      [] code = SrcNone -> Compiled(<<Assign("result", Const(PyNone))>>)
      [] code = SrcErrLiteral ->
            Compiled(<<Assign("result", Const(PyStr(<<"U+51FA", "U+9519">>)))>>)
      [] code = SrcExit -> Compiled(<<Assign("result", Call(Name("exit")))>>)
      [] code = SrcTwoStatements ->
            Compiled(<<Assign("result", Const(PyInt(1))), Import("os")>>)
      [] code = SrcBareTag -> Compiled(<<Assign("result", Name("CODE"))>>)
      [] code = SrcProse -> NotCompiled
      [] code = <<>> -> NotCompiled

\* local_vars as execute_code builds it
LocalVars == {"ak", "pd", "datetime"}

\* globals() of the module: its imports, console, the class and main
Globals ==
    {"os", "ak", "requests", "datetime", "pd", "load_dotenv", "Dict", "Any",
     "Optional", "Tuple", "Console", "Panel", "Table", "Markdown", "box",
     "console", "NLDataQuery", "main"}

\* the builtins exec adds to globals() (those the expressions above use)
Builtins == {"exit", "__import__"}

\* the namespace exec resolves a name in: locals, then globals, then builtins
Resolvable(id, bound) == id \in bound \/ id \in Globals \/ id \in Builtins

ValueOf(id) ==
    CASE id = "ak" -> PyModule("akshare")
      [] id = "os" -> PyModule("os")
      [] id = "exit" -> PyCallable("exit")
      [] OTHER -> [t |-> "object", name |-> id]

\* Exceptions: isException is FALSE for a BaseException that is no Exception
Exc(cls, isException, msg) ==
    [cls |-> cls, isException |-> isException, msg |-> msg]
NameError(id) == Exc("NameError", TRUE, <<"name '", id, "' is not defined">>)
SyntaxError ==
    Exc("SyntaxError", TRUE, <<"invalid syntax (<string>, line 1)">>)
AttributeError(a) == Exc("AttributeError", TRUE, <<"no attribute '", a, "'">>)
TypeError == Exc("TypeError", TRUE, <<"object is not callable">>)
SystemExit == Exc("SystemExit", FALSE, <<>>)
NoExc == [cls |-> "none"]

Ok(v) == [st |-> "ok", v |-> v]
Raise(e) == [st |-> "raise", exc |-> e]

\* What a call into the finance-data library can do: return a table, return
\* nothing, or raise (with or without a message)
LibOutcomes ==
    {Ok(PyDF(n)) : n \in 0..MaxRows}
        \cup {Ok(PyNone),
              Raise(Exc("Exception", TRUE, <<>>)),
              Raise(Exc("KeyError", TRUE, <<"'symbol'">>))}

\* Evaluation of an expression; lib is what the library call does
RECURSIVE Eval(_, _, _)
Eval(e, bound, lib) ==
    CASE e.k = "const" -> Ok(e.v)
      [] e.k = "name" ->
            IF Resolvable(e.id, bound) THEN Ok(ValueOf(e.id))
            ELSE Raise(NameError(e.id))
      [] e.k = "attr" ->
            LET o == Eval(e.e, bound, lib) IN
            IF o.st = "raise" THEN o
            ELSE IF o.v = PyModule("akshare") THEN Ok(PyLibFunction(e.a))
            ELSE IF o.v = PyModule("os") /\ e.a = "sep" THEN Ok(PyStr(<<"/">>))
            ELSE Raise(AttributeError(e.a))
      [] e.k = "call" ->
            LET f == Eval(e.e, bound, lib) IN
            IF f.st = "raise" THEN f
            ELSE IF f.v = PyCallable("exit") THEN Raise(SystemExit)
            ELSE IF f.v.t = "libfunction" THEN lib
            ELSE Raise(TypeError)

\* The statements from the i-th on, with the names bound so far and the
\* value of result so far
RECURSIVE RunFrom(_, _, _, _, _)
RunFrom(stmts, i, bound, res, lib) ==
    IF i > Len(stmts) THEN Ok(res)
    ELSE LET s == stmts[i] IN
        CASE s.k = "assign" ->
                LET o == Eval(s.e, bound, lib) IN
                IF o.st = "raise" THEN o
                ELSE RunFrom(stmts, i + 1, bound \cup {s.target}, o.v, lib)
          [] s.k = "import" ->
                RunFrom(stmts, i + 1, bound \cup {s.m}, res, lib)

\* exec(f"result = {code}", globals(), local_vars); local_vars.get("result")
Exec(code, lib) ==
    LET c == Compile(code) IN
    IF c.ok THEN RunFrom(c.stmts, 1, LocalVars, PyNone, lib)
    ELSE Raise(SyntaxError)

\* f"执行出错: {str(e)}"
ErrorPrefix == <<"U+6267", "U+884C", "U+51FA", "U+9519", ":", " ">>

\* except Exception: a BaseException that is no Exception is not caught
execute_code(code, lib) ==
    LET o == Exec(code, lib) IN
    IF o.st = "raise" /\ o.exc.isException
    THEN Ok(PyStr(ErrorPrefix \o o.exc.msg))
    ELSE o

----------------------------------------------------------------------------
(* What the environment can supply *)

Spaces(n) == [i \in 1..n |-> " "]

\* blanks around and inside a response text
Pads == {Spaces(n) : n \in 0..MaxPad} \cup {<<"\n">>}

Tags == {<<>>, CodeTag, ExplainTag}

Bodies ==
    {<<>>, SrcLibCall, SrcUndefined, SrcOsSep, SrcNone, SrcErrLiteral, SrcExit,
     SrcTwoStatements, SrcBareTag, SrcProse}

\* the texts a first choice can carry
Texts ==
    {a \o t \o b \o body \o c :
        a \in Pads, t \in Tags, b \in Pads, body \in Bodies, c \in Pads}

Statuses == {200, 500}

\* What the endpoint can answer: no answer at all, and under each status a
\* body that is no JSON, JSON without usable choices, or a first choice with
\* a text (padded texts under status 200 only)
Responses ==
    {Response("error", 0, "nojson", "absent", <<>>)}
        \cup {Response("ok", st, "nojson", "absent", <<>>) : st \in Statuses}
        \cup {Response("ok", st, "json", ch, <<>>) :
                st \in Statuses, ch \in {"absent", "empty", "malformed"}}
        \cup {Response("ok", 200, "json", "present", tx) : tx \in Texts}
        \cup {Response("ok", st, "json", "present", t \o body) :
                st \in Statuses, t \in Tags, body \in Bodies}

CmdExit == <<"e", "x", "i", "t">>
CmdQuit == <<"q", "u", "i", "t">>
CmdLeave == <<"U+9000", "U+51FA">>
CmdDebug == <<"d", "e", "b", "u", "g">>
CmdSave == <<"s", "a", "v", "e">>

QueryIndex == <<"q", "1">>
QueryWhat == <<"q", "?">>

\* the lines a user can type at the prompt
UserInputs ==
    {<<>>, <<" ">>, CmdExit, CmdQuit, CmdLeave, CmdDebug, CmdSave,
     <<"S", "A", "V", "E">>, QueryIndex, <<" ">> \o QueryWhat}

----------------------------------------------------------------------------
(* What is displayed and written *)

Panel(name, body) == [panel |-> name, body |-> body]

NoResp == [net |-> "none"]
\* no value yet (history)
Nothing == [t |-> "nothing"]
NoWrite == [file |-> <<>>]

\* the characters of the model's queries for which c.isalnum() holds
Alnum == {"q", "1"}

\* c.isalnum() or c in "._- 中文"
KeptInFilename(c) ==
    c \in Alnum \/ c \in {".", "_", "-", " ", "U+4E2D", "U+6587"}

\* clean_query[:30]
FilenameLimit == 30

\* the default file name of save_result
DefaultFilename(q) ==
    SliceTo(SelectSeq(q, KeptInFilename), FilenameLimit)
        \o <<"_", "<timestamp>", ".csv">>

----------------------------------------------------------------------------
(* The initial state: before main has constructed the query tool *)

Init ==
    /\ pc = "start"
    /\ api_key \in BOOLEAN
    /\ debug_mode = FALSE
    /\ last_result = PyNone
    /\ last_query = PyNone
    /\ natural_language = PyNone
    /\ resp = NoResp
    /\ query_type = PyNone
    /\ content = PyNone
    /\ result = PyNone
    /\ raised = NoExc
    /\ out = <<>>
    /\ written = NoWrite
    /\ remoteCalls = 0
    /\ execCalls = 0
    /\ shown = Nothing
    /\ decisive = Nothing

cycleVars == <<natural_language, resp, query_type, content, result, raised,
               remoteCalls, execCalls>>
cacheVars == <<last_result, last_query>>
histVars == <<shown, decisive>>

\* main up to the prompt: NLDataQuery(debug_mode=False) raises ValueError
\* without the API key, and main's outer handler ends the program
Start ==
    /\ pc = "start"
    /\ IF api_key
       THEN pc' = "prompt" /\ out' = <<>>
       ELSE pc' = "init_failed" /\ out' = <<Panel("init_failed", <<>>)>>
    /\ UNCHANGED <<api_key, debug_mode, written>>
    /\ UNCHANGED cacheVars
    /\ UNCHANGED histVars
    /\ UNCHANGED cycleVars

\* `if not user_input: continue`
EmptyInput(u) ==
    /\ pc = "prompt"
    /\ Strip(u) = <<>>
    /\ out' = <<>>
    /\ written' = NoWrite
    /\ UNCHANGED <<pc, api_key, debug_mode>>
    /\ UNCHANGED cacheVars
    /\ UNCHANGED histVars
    /\ UNCHANGED cycleVars

ExitWords == {CmdExit, CmdQuit, CmdLeave}

ExitCommand(u) ==
    /\ pc = "prompt"
    /\ Strip(u) # <<>>
    /\ Lower(Strip(u)) \in ExitWords
    /\ pc' = "exited"
    /\ out' = <<Panel("goodbye", <<"\n">>)>>
    /\ written' = NoWrite
    /\ UNCHANGED <<api_key, debug_mode>>
    /\ UNCHANGED cacheVars
    /\ UNCHANGED histVars
    /\ UNCHANGED cycleVars

\* except KeyboardInterrupt, raised by console.input
KeyboardInterrupt ==
    /\ pc = "prompt"
    /\ pc' = "exited"
    /\ out' = <<Panel("goodbye", <<"\n", "\n">>)>>
    /\ written' = NoWrite
    /\ UNCHANGED <<api_key, debug_mode>>
    /\ UNCHANGED cacheVars
    /\ UNCHANGED histVars
    /\ UNCHANGED cycleVars

DebugCommand(u) ==
    /\ pc = "prompt"
    /\ Strip(u) # <<>>
    /\ Lower(Strip(u)) \notin ExitWords
    /\ Lower(Strip(u)) = CmdDebug
    /\ debug_mode' = ~debug_mode
    /\ out' = <<Panel(IF debug_mode' THEN "debug_on" ELSE "debug_off", <<>>)>>
    /\ written' = NoWrite
    /\ UNCHANGED <<pc, api_key>>
    /\ UNCHANGED cacheVars
    /\ UNCHANGED histVars
    /\ UNCHANGED cycleVars

\* save_result(): fsOk is whether the file system accepts the write
save_result(fsOk) ==
    IF last_result = PyNone THEN
        /\ out' = <<Panel("nothing_to_save", <<>>)>>
        /\ written' = NoWrite
    ELSE IF last_query = PyNone \/ ~fsOk THEN
        /\ out' = <<Panel("save_failed", <<>>)>>
        /\ written' = NoWrite
    ELSE
        /\ out' = <<Panel("saved", DefaultFilename(last_query.s))>>
        /\ written' =
            [file |-> DefaultFilename(last_query.s),
             data |-> IF last_result.t = "DataFrame" THEN last_result
                      ELSE PyStr(StrOf(last_result))]

SaveCommand(u, fsOk) ==
    /\ pc = "prompt"
    /\ Strip(u) # <<>>
    /\ Lower(Strip(u)) \notin ExitWords
    /\ Lower(Strip(u)) # CmdDebug
    /\ Lower(Strip(u)) = CmdSave
    /\ save_result(fsOk)
    /\ UNCHANGED <<pc, api_key, debug_mode>>
    /\ UNCHANGED cacheVars
    /\ UNCHANGED histVars
    /\ UNCHANGED cycleVars

IsCommand(u) ==
    \/ Strip(u) = <<>>
    \/ Lower(Strip(u)) \in ExitWords \cup {CmdDebug, CmdSave}

----------------------------------------------------------------------------
(* query *)

ErrorMark == <<"U+51FA", "U+9519">>

\* isinstance(result, str) and "出错" in result
IsErrorResult(v) == v.t = "str" /\ Contains(v.s, ErrorMark)

\* query_tool.query(user_input) up to requests.post: the request is sent
QueryBegin(u) ==
    /\ pc = "prompt"
    /\ ~IsCommand(u)
    /\ pc' = "classifying"
    /\ natural_language' = PyStr(Strip(u))
    /\ remoteCalls' = remoteCalls + 1
    /\ out' = <<>>
    /\ written' = NoWrite
    /\ UNCHANGED <<api_key, debug_mode, resp, query_type, content, result,
                   raised, execCalls>>
    /\ UNCHANGED cacheVars
    /\ UNCHANGED histVars

\* NotUnderstood without the test of content
NotUnderstood_TypeOnly(c) == Falsy(c.query_type)

\* `if not query_type or not content`
NotUnderstood(c) == Falsy(c.query_type) \/ Falsy(c.content)

\* Branch with the explain test after the code branch: explanations are run
Branch_ExplainExecuted(c) ==
    IF NotUnderstood(c) THEN "unrecognized" ELSE "executing"

\* the branch query takes on what call_deepseek returned
Branch(c) ==
    IF NotUnderstood(c) THEN "unrecognized"
    ELSE IF c.query_type = TypeExplain THEN "explaining"
    ELSE "executing"

\* the explain branch keeping the cached result
ResultAfterExplain_Kept == last_result

\* `self.last_result = None` of the explain branch
ResultAfterExplain == PyNone

\* the code branch keeping the cached query
QueryAfterExec_Kept == last_query

\* `self.last_query = natural_language`
QueryAfterExec == natural_language

\* The endpoint answers r: call_deepseek returns and query dispatches on it,
\* up to the call of execute_code
RemoteResponds(r) ==
    /\ pc = "classifying"
    /\ resp' = r
    /\ LET c == call_deepseek(r)
           api == IF ApiRaises(r) THEN <<Panel("api_failed", <<>>)>> ELSE <<>>
       IN
       /\ query_type' = c.query_type
       /\ content' = c.content
       /\ IF Branch(c) = "unrecognized" THEN
              /\ out' = api \o <<Panel("query_failed", <<>>)>>
              /\ pc' = "unrecognized"
              /\ UNCHANGED <<last_result, execCalls, decisive>>
          ELSE IF Branch(c) = "explaining" THEN
              /\ out' = <<Panel("answer", c.content.s)>>
              /\ last_result' = ResultAfterExplain
              /\ decisive' = Nothing
              /\ pc' = "explaining"
              /\ UNCHANGED execCalls
          ELSE
              /\ out' = IF debug_mode
                        THEN <<Panel("generated_code", c.content.s)>>
                        ELSE <<>>
              /\ execCalls' = execCalls + 1
              /\ pc' = "executing"
              /\ UNCHANGED <<last_result, decisive>>
    /\ UNCHANGED <<api_key, debug_mode, last_query, natural_language, result,
                   raised, written, remoteCalls, shown>>

\* The exec'd code finishes, the library call in it doing lib: execute_code
\* returns and query stores and displays the result; a SystemExit leaves
\* query and main and ends the process
ExecFinishes(lib) ==
    /\ pc = "executing"
    /\ LET o == execute_code(content.s, lib)
           x == Exec(content.s, lib)
       IN
       /\ raised' = IF x.st = "raise" THEN x.exc ELSE NoExc
       /\ IF o.st = "raise" THEN
              /\ pc' = "terminated"
              /\ UNCHANGED <<result, last_result, last_query, out>>
              /\ UNCHANGED histVars
          ELSE
              /\ pc' = "done"
              /\ result' = o.v
              /\ last_query' = QueryAfterExec
              /\ IF IsErrorResult(o.v) THEN
                     /\ out' = out \o <<Panel("exec_error", o.v.s)>>
                     /\ last_result' = PyNone
                     /\ decisive' = Nothing
                     /\ UNCHANGED shown
                 ELSE IF o.v.t = "DataFrame" THEN
                     /\ out' = out \o <<Panel("table", <<"<rows>">>),
                                        Panel("save_hint", <<>>)>>
                     /\ last_result' = o.v
                     /\ shown' = o.v
                     /\ decisive' = o.v
                 ELSE
                     /\ out' = out \o <<Panel("result", StrOf(o.v))>>
                     /\ last_result' = o.v
                     /\ shown' = IF o.v = PyNone THEN shown ELSE o.v
                     /\ decisive' = IF o.v = PyNone THEN Nothing ELSE o.v
    /\ UNCHANGED <<api_key, debug_mode, natural_language, resp, query_type,
                   content, written, remoteCalls, execCalls>>

\* query returns to the loop of main, which prompts again
Return ==
    /\ pc \in {"unrecognized", "explaining", "done"}
    /\ pc' = "prompt"
    /\ natural_language' = PyNone
    /\ resp' = NoResp
    /\ query_type' = PyNone
    /\ content' = PyNone
    /\ result' = PyNone
    /\ raised' = NoExc
    /\ remoteCalls' = 0
    /\ execCalls' = 0
    /\ out' = <<>>
    /\ UNCHANGED <<api_key, debug_mode, written>>
    /\ UNCHANGED cacheVars
    /\ UNCHANGED histVars

Next ==
    \/ Start
    \/ \E u \in UserInputs : EmptyInput(u)
    \/ \E u \in UserInputs : ExitCommand(u)
    \/ KeyboardInterrupt
    \/ \E u \in UserInputs : DebugCommand(u)
    \/ \E u \in UserInputs, fsOk \in BOOLEAN : SaveCommand(u, fsOk)
    \/ \E u \in UserInputs : QueryBegin(u)
    \/ \E r \in Responses : RemoteResponds(r)
    \/ \E lib \in LibOutcomes : ExecFinishes(lib)
    \/ Return

Spec == Init /\ [][Next]_vars

----------------------------------------------------------------------------
(* Properties *)

AllBlank(s) == \A i \in 1..Len(s) : s[i] \in Whitespace

NoBlankEnds(s) ==
    s = <<>> \/ (s[1] \notin Whitespace /\ s[Len(s)] \notin Whitespace)

\* p is s without its leading and trailing whitespace
IsTrimOf(p, s) ==
    /\ NoBlankEnds(p)
    /\ \E i \in 0..Len(s) :
          /\ i + Len(p) <= Len(s)
          /\ AllBlank(SubSeq(s, 1, i))
          /\ SubSeq(s, i + 1, i + Len(p)) = p
          /\ AllBlank(SubSeq(s, i + Len(p) + 1, Len(s)))

\* tag stands in s right after i blanks
TagAfterBlanks(s, tag, i) ==
    /\ i + Len(tag) <= Len(s)
    /\ AllBlank(SubSeq(s, 1, i))
    /\ SubSeq(s, i + 1, i + Len(tag)) = tag

\* the text of s, trimmed, starts with tag
TrimmedStartsWith(s, tag) == \E i \in 0..Len(s) : TagAfterBlanks(s, tag, i)

\* the endpoint has answered in this cycle with a first choice that has text
HasText == resp # NoResp /\ ~ApiRaises(resp) /\ resp.choices = "present"

LastPanel == IF out = <<>> THEN "none" ELSE out[Len(out)].panel

\* C1: whenever the first choice's text, trimmed, starts with CODE|,
\* call_deepseek has returned "code" with the text after the 5 characters of
\* the tag, without its leading and trailing whitespace.
C1_CodePayloadTrimmed ==
    HasText =>
        \A i \in 0..Len(resp.text) :
            TagAfterBlanks(resp.text, CodeTag, i) =>
                /\ query_type = TypeCode
                /\ content.t = "str"
                /\ IsTrimOf(content.s,
                            SubSeq(resp.text, i + 6, Len(resp.text)))

C1_Witness ==
    /\ pc = "executing"
    /\ resp.text = <<" ">> \o CodeTag \o <<" ">> \o SrcLibCall \o <<"\n">>
    /\ query_type = TypeCode
    /\ content = PyStr(SrcLibCall)

\* C2 as it is stated: whenever the text is EXPLAIN| followed by X,
\* call_deepseek has returned "explain" with X, the cycle displays X as the
\* answer, and execute_code is not called.
C2_ExplainShownAsIs ==
    (HasText /\ TagAfterBlanks(resp.text, ExplainTag, 0)) =>
        LET X == SubSeq(resp.text, 9, Len(resp.text)) IN
        /\ query_type = TypeExplain
        /\ content = PyStr(X)
        /\ pc = "explaining"
        /\ out = <<Panel("answer", X)>>
        /\ execCalls = 0

\* C2, amended: whenever the first choice's text, trimmed, is EXPLAIN|
\* followed by X, call_deepseek has returned "explain" with X trimmed and
\* execute_code is not called in the cycle; a non-empty trimmed X is displayed
\* unchanged as the answer, an empty one is reported as not understood.
C2_ExplainTrimmedNeverExecuted ==
    HasText =>
        \A i \in 0..Len(resp.text) :
            TagAfterBlanks(resp.text, ExplainTag, i) =>
                /\ query_type = TypeExplain
                /\ content.t = "str"
                /\ IsTrimOf(content.s,
                            SubSeq(resp.text, i + 9, Len(resp.text)))
                /\ execCalls = 0
                /\ raised = NoExc
                /\ IF content.s # <<>>
                   THEN pc = "explaining" /\ out = <<Panel("answer", content.s)>>
                   ELSE pc = "unrecognized" /\ LastPanel = "query_failed"

C2_Witness ==
    /\ pc = "explaining"
    /\ resp.text = <<"\n">> \o ExplainTag \o <<" ">> \o SrcProse \o <<" ">>
    /\ out = <<Panel("answer", SrcProse)>>
    /\ execCalls = 0

\* C3 as it is stated: whenever the text starts with neither tag,
\* call_deepseek has returned "code" with the full text, and the text is
\* passed to execute_code.
C3_UntaggedFullTextExecuted ==
    (/\ HasText
     /\ ~TagAfterBlanks(resp.text, CodeTag, 0)
     /\ ~TagAfterBlanks(resp.text, ExplainTag, 0)) =>
        /\ query_type = TypeCode
        /\ content = PyStr(resp.text)
        /\ pc \in {"executing", "done", "terminated"}
        /\ execCalls = 1

\* C3, amended: whenever the first choice's text, trimmed, starts with
\* neither tag, call_deepseek has returned "code" with the trimmed text; a
\* non-empty trimmed text is passed to execute_code, an empty one is reported
\* as not understood and execute_code is not called.
C3_UntaggedTrimmedTextExecuted ==
    (/\ HasText
     /\ ~TrimmedStartsWith(resp.text, CodeTag)
     /\ ~TrimmedStartsWith(resp.text, ExplainTag)) =>
        /\ query_type = TypeCode
        /\ content.t = "str"
        /\ IsTrimOf(content.s, resp.text)
        /\ IF content.s # <<>>
           THEN pc \in {"executing", "done", "terminated"} /\ execCalls = 1
           ELSE pc = "unrecognized" /\ execCalls = 0
                    /\ LastPanel = "query_failed"

C3_Witness ==
    /\ pc = "done"
    /\ resp.text = <<" ">> \o SrcOsSep \o <<"\n">>
    /\ query_type = TypeCode
    /\ content = PyStr(SrcOsSep)
    /\ execCalls = 1
    /\ result = PyStr(<<"/">>)

Shown(name) == \E i \in 1..Len(out) : out[i].panel = name

\* C4 as it is stated: whenever the remote call fails (a network error, a
\* status outside 200..299, a body that is no JSON, missing or empty
\* choices), call_deepseek has returned a pair that query does not
\* understand, the cycle reports that it could not understand, and
\* execute_code is not called.
C4_FailedCallNotUnderstood ==
    (/\ resp # NoResp
     /\ \/ resp.net = "error"
        \/ resp.status \notin 200..299
        \/ resp.body = "nojson"
        \/ resp.choices \in {"absent", "empty"}) =>
        /\ Falsy(query_type) \/ Falsy(content)
        /\ pc = "unrecognized"
        /\ LastPanel = "query_failed"
        /\ execCalls = 0

\* C5 as it is stated: execute_code never raises to its caller, and whenever
\* the exec'd code raised, execute_code has returned an error string that is
\* not empty.
C5_ExecuteNeverRaises ==
    /\ pc # "terminated"
    /\ raised # NoExc =>
          /\ pc = "done"
          /\ IsErrorResult(result)
          /\ result.s # <<>>

RECURSIVE ExprNames(_)
ExprNames(e) ==
    CASE e.k = "name" -> {e.id}
      [] e.k = "const" -> {}
      [] OTHER -> ExprNames(e.e)

\* the identifiers the statements refer to
ProgNames(stmts) ==
    UNION {IF stmts[i].k = "assign" THEN ExprNames(stmts[i].e) ELSE {} :
              i \in 1..Len(stmts)}

HasImport(stmts) == \E i \in 1..Len(stmts) : stmts[i].k = "import"

\* C6 as it is stated: code that refers to an identifier other than the
\* finance-data library handle and the date/time helpers, or that holds a
\* second statement or an import, ends as an execution error.
C6_OnlyLibraryNamespace ==
    (pc = "done" /\ Compile(content.s).ok) =>
        LET stmts == Compile(content.s).stmts IN
        (\/ ~(ProgNames(stmts) \subseteq LocalVars)
         \/ Len(stmts) > 1
         \/ HasImport(stmts)) =>
            /\ IsErrorResult(result)
            /\ LastPanel = "exec_error"

\* one step of a query cycle along the edges of the state machine
C7_Step ==
    /\ (pc = "prompt" /\ pc' \notin {"prompt", "exited"}) =>
          /\ pc' = "classifying"
          /\ remoteCalls' = 1
          /\ execCalls' = 0
    /\ pc = "classifying" =>
          /\ pc' \in {"explaining", "executing", "unrecognized"}
          /\ remoteCalls' = 1
          /\ execCalls' = IF pc' = "executing" THEN 1 ELSE 0
          /\ pc' = "executing" => query_type' = TypeCode
    /\ pc = "executing" =>
          /\ pc' = "done"
          /\ remoteCalls' = 1
          /\ execCalls' = 1
    /\ pc \in {"explaining", "done", "unrecognized"} => pc' = "prompt"

\* C7 as it is stated: every query cycle goes Idle -> Classifying ->
\* Explaining, Unrecognized or Executing -> Done and ends in one of the
\* terminal states, with one remote call, at most one call of execute_code,
\* and that one only when call_deepseek returned "code".
C7_CycleFollowsStateMachine == [][C7_Step]_vars

\* C8 as it is stated: whenever call_deepseek has returned "code" or
\* "explain", the payload is not empty.
C8_PayloadNeverEmpty ==
    (resp # NoResp /\ query_type \in {TypeCode, TypeExplain}) =>
        content.t = "str" /\ content.s # <<>>

\* C8, amended: the payload is not empty whenever query goes on to display
\* an explanation or to run code; call_deepseek itself returns "code" or
\* "explain" with an empty payload exactly for the texts that are CODE|,
\* EXPLAIN| or nothing once trimmed, and query reports those as not
\* understood.
C8_PayloadNonEmptyPastTheGuard ==
    /\ pc \in {"explaining", "executing", "done", "terminated"} =>
          /\ query_type \in {TypeCode, TypeExplain}
          /\ content.t = "str"
          /\ content.s # <<>>
    /\ (resp # NoResp /\ query_type \in {TypeCode, TypeExplain}) =>
          /\ content.t = "str"
          /\ content.s = <<>> <=>
                \/ AllBlank(resp.text)
                \/ IsTrimOf(CodeTag, resp.text)
                \/ IsTrimOf(ExplainTag, resp.text)
          /\ content.s = <<>> =>
                /\ pc = "unrecognized"
                /\ LastPanel = "query_failed"
                /\ execCalls = 0

C8_Witness ==
    /\ pc = "unrecognized"
    /\ resp.text = CodeTag \o <<" ">>
    /\ query_type = TypeCode
    /\ content = PyStr(<<>>)
    /\ LastPanel = "query_failed"

\* C9 as it is stated: whenever the generated expression raised or returned
\* None, the cycle ends with the execution-error panel and query does not
\* raise.
C9_RaiseOrNoneIsError ==
    (/\ pc \in {"done", "terminated"}
     /\ raised # NoExc \/ (pc = "done" /\ result = PyNone)) =>
        /\ pc = "done"
        /\ LastPanel = "exec_error"
        /\ ~Shown("result")

\* C10 as it is stated: whenever the exec'd code did not raise, a DataFrame
\* is displayed as a table and any other value as a scalar result, never as
\* an execution error.
C10_SuccessNeverError ==
    (pc = "done" /\ raised = NoExc) =>
        /\ ~Shown("exec_error")
        /\ IF result.t = "DataFrame" THEN Shown("table") ELSE Shown("result")


\* what the file holds once v is saved
Stored(v) == IF v.t = "DataFrame" THEN v ELSE PyStr(StrOf(v))

\* the save command has just run
JustSaved ==
    pc = "prompt" /\ LastPanel \in {"saved", "nothing_to_save", "save_failed"}

\* C11 as it is stated: save writes the value that the most recent cycle
\* with a table or scalar result displayed, whatever cycles came later, and
\* reports that there is nothing to save only when no cycle displayed one.
C11_SaveWritesLastShown ==
    (JustSaved /\ LastPanel # "save_failed") =>
        /\ LastPanel = "nothing_to_save" <=> shown = Nothing
        /\ LastPanel = "saved" => written.data = Stored(shown)

\* C11, amended: save writes the result of the most recent cycle that was
\* understood, if that cycle displayed a table or a scalar other than None;
\* after an explanation, an execution error or a None result, and before
\* any result, it reports that there is nothing to save; a failed write
\* writes nothing.
C11_SaveWritesUnlessCleared ==
    JustSaved =>
        /\ LastPanel = "nothing_to_save" <=> decisive = Nothing
        /\ LastPanel = "saved" =>
              /\ written.data = Stored(decisive)
              /\ written.file = DefaultFilename(last_query.s)
        /\ LastPanel # "saved" => written = NoWrite

C11_Witness ==
    /\ JustSaved
    /\ LastPanel = "saved"
    /\ decisive = PyDF(1)
    /\ written.data = PyDF(1)
    /\ written.file = <<"q", "_", "<timestamp>", ".csv">>

\* one step of main as C12 allows it
C12_Step ==
    /\ pc' # "terminated"
    /\ pc \in {"unrecognized", "explaining", "done"} => pc' = "prompt"
    /\ pc = "executing" => pc' = "done"
    /\ (pc' = "exited" /\ pc # "exited") =>
          /\ pc = "prompt"
          /\ out' \in {<<Panel("goodbye", <<"\n">>)>>,
                       <<Panel("goodbye", <<"\n", "\n">>)>>}
    /\ (pc' = "init_failed" /\ pc # "init_failed") =>
          pc = "start" /\ ~api_key
    /\ ~api_key => pc' \in {"start", "init_failed"} /\ remoteCalls' = 0

\* C12 as it is stated: no failure of a query ends the process: after a
\* cycle that was not understood or whose evaluation failed, main prompts
\* again; the loop ends only on an exit word or a keyboard interrupt at the
\* prompt; and only a missing API key keeps the loop from starting, in which
\* case no query is sent.
C12_NoQueryFailureIsFatal == [][C12_Step]_vars

\* one step, as it may change the cache
C13_Step ==
    /\ last_result' # PyNone =>
          /\ last_query' # PyNone
          /\ IF pc = "executing" /\ pc' = "done"
             THEN /\ last_result' = result'
                  /\ last_query' = natural_language
                  /\ natural_language # PyNone
             ELSE UNCHANGED cacheVars
    /\ (pc = "classifying" /\ pc' = "unrecognized") => UNCHANGED cacheVars
    /\ (pc = "prompt" /\ pc' = "prompt") => UNCHANGED cacheVars

\* C13: a cached result that is not None is the value execute_code returned
\* in the cycle of the cached query: both are set together when a code cycle
\* ends and a result that is not None is never changed otherwise; cycles
\* that are not understood and the debug and save commands (every command
\* that stays at the prompt) leave last_result and last_query as they are.
C13_CacheNamesItsQuery == [][C13_Step]_vars

C13_Witness ==
    /\ pc = "unrecognized"
    /\ natural_language = PyStr(QueryIndex)
    /\ last_result = PyDF(1)
    /\ last_query = PyStr(QueryWhat)

====
